---- MODULE Spec2Model ----
(***************************************************************************)
(* A model of two parts of DiHydrogen:                                     *)
(*   - the ROCm GPU runtime (src/src/gpu/rocm/runtime.cpp): the process-   *)
(*     wide initialized_ flag, init/finalize, and the algorithm that picks *)
(*     the device a process binds to from the environment;                 *)
(*   - the CPU tensor (src/include/h2/tensor/tensor_cpu.hpp): resize,      *)
(*     empty, unview, view, const_view, contiguous and data.                *)
(* SpecGpu and SpecTensor are the two specifications.                      *)
(***************************************************************************)
EXTENDS Integers, Sequences, FiniteSets, TLC

VARIABLES
    \* ---- GPU runtime ----
    env,            \* the process environment: variable name -> C string
    deviceCount,    \* number of devices the driver makes visible
    currentDevice,  \* the driver's active device of the process
    initialized_,   \* runtime.cpp:62
    status,         \* "running", "terminated" (std::terminate) or "trapped"
    lastCall,       \* what the last runtime call did (its log and its set_gpu)
    \* ---- CPU tensor ----
    tensors,        \* tensor handle -> tensor object
    heap,           \* live buffers allocated by StridedMemory: id -> size
    result          \* what the last tensor call did

gpuVars == <<env, deviceCount, currentDevice, initialized_, status, lastCall>>
tensorVars == <<tensors, heap, result>>
vars == <<env, deviceCount, currentDevice, initialized_, status, lastCall,
          tensors, heap, result>>

(***************************************************************************)
(* Bounds of the model.                                                    *)
(***************************************************************************)
MaxGpus == 2        \* the visible device count ranges over 0..MaxGpus
MaxEnvSet == 3      \* at most this many environment variables are set
MaxRank == 1        \* shapes have at most this many dimensions

(***************************************************************************)
(* C strings: the sequence of characters up to and including the NUL.      *)
(* The null pointer is the empty sequence.                                 *)
(***************************************************************************)
NUL == "NUL"
NULL == <<>>
CStr(chars) == chars \o <<NUL>>
strlen(str) == Len(str) - 1

Digits == {"0", "1", "2", "3", "4", "5", "6", "7", "8", "9"}
DigitValue(c) ==
    CASE c = "0" -> 0 [] c = "1" -> 1 [] c = "2" -> 2 [] c = "3" -> 3
      [] c = "4" -> 4 [] c = "5" -> 5 [] c = "6" -> 6 [] c = "7" -> 7
      [] c = "8" -> 8 [] c = "9" -> 9

RECURSIVE atoi_digits(_, _, _)
atoi_digits(str, i, acc) ==
    IF str[i] \in Digits
    THEN atoi_digits(str, i + 1, acc * 10 + DigitValue(str[i]))
    ELSE acc

\* std::atoi: optional sign, then the longest run of decimal digits; 0 if none.
atoi(str) ==
    IF str[1] = "-" THEN 0 - atoi_digits(str, 2, 0)
    ELSE IF str[1] = "+" THEN atoi_digits(str, 2, 0)
    ELSE atoi_digits(str, 1, 0)

\* C's integer division truncates toward zero; b is not 0.
CDiv(a, b) ==
    LET abs(x) == IF x < 0 THEN 0 - x ELSE x
        q == abs(a) \div abs(b)
    IN  IF (a < 0) = (b < 0) THEN q ELSE 0 - q

\* C's remainder has the sign of the dividend; b is not 0.
CMod(a, b) == a - b * CDiv(a, b)

(***************************************************************************)
(* The environment.                                                        *)
(***************************************************************************)
RankNames == <<"FLUX_TASK_LOCAL_ID", "SLURM_LOCALID",
               "OMPI_COMM_WORLD_LOCAL_RANK", "MV2_COMM_WORLD_LOCAL_RANK",
               "MPI_LOCALRANKID">>
SizeNames == <<"SLURM_NTASKS_PER_NODE", "OMPI_COMM_WORLD_LOCAL_SIZE",
               "MV2_COMM_WORLD_LOCAL_SIZE", "MPI_LOCALNRANKS">>
FluxNames == {"FLUX_JOB_SIZE", "FLUX_JOB_NNODES"}
FlagNames == {"H2_SELECT_DEVICE_0", "H2_SELECT_DEVICE_RR"}

Range(seq) == {seq[i] : i \in DOMAIN seq}
EnvNames == Range(RankNames) \cup Range(SizeNames) \cup FluxNames \cup FlagNames

\* The values a variable is given in the model.
NumberStrs == {CStr(<<"0">>), CStr(<<"1">>), CStr(<<"3">>)}
FlagStrs == {CStr(<<>>), CStr(<<"0">>), CStr(<<"1">>), CStr(<<"0", "1">>)}
EnvValues(name) == IF name \in FlagNames THEN FlagStrs ELSE NumberStrs

Environments ==
    UNION { {e \in [S -> NumberStrs \cup FlagStrs] :
                \A n \in S : e[n] \in EnvValues(n)} :
            S \in {T \in SUBSET EnvNames : Cardinality(T) <= MaxEnvSet} }

\* std::getenv
getenv(name) == IF name \in DOMAIN env THEN env[name] ELSE NULL

\* The first variable of names (from position i) that is set, or NULL.
RECURSIVE FirstSet(_, _)
FirstSet(names, i) ==
    IF i > Len(names) THEN NULL
    ELSE IF getenv(names[i]) # NULL THEN getenv(names[i])
    ELSE FirstSet(names, i + 1)

guess_local_rank ==
    LET e == FirstSet(RankNames, 1)
    IN  IF e # NULL THEN atoi(e) ELSE -1

\* A division by zero is undefined behaviour: the process traps (x86) or
\* the quotient is some value (0 on AArch64).
Trap == [trap |-> TRUE, val |-> 0]
Value(v) == [trap |-> FALSE, val |-> v]

guess_local_size ==
    IF getenv("FLUX_JOB_SIZE") # NULL /\ getenv("FLUX_JOB_NNODES") # NULL
    THEN LET int_nnodes == atoi(getenv("FLUX_JOB_NNODES"))
             flux_size == atoi(getenv("FLUX_JOB_SIZE"))
         IN  IF int_nnodes = 0
             THEN {Trap, Value(0)}
             ELSE {Value(CDiv(flux_size + int_nnodes - 1, int_nnodes))}
    ELSE LET e == FirstSet(SizeNames, 1)
         IN  {Value(IF e # NULL THEN atoi(e) ELSE -1)}

check_bool_cstr(str) == str # NULL /\ strlen(str) # 0 /\ str[1] # "0"

\* A slip: the flag of the round robin is read for the flag of device 0.
force_device_zero_reads_rr == check_bool_cstr(getenv("H2_SELECT_DEVICE_RR"))

force_device_zero == check_bool_cstr(getenv("H2_SELECT_DEVICE_0"))

force_round_robin == check_bool_cstr(getenv("H2_SELECT_DEVICE_RR"))

(***************************************************************************)
(* The driver, seen through H2_CHECK_HIP: a failed call ends the process.  *)
(***************************************************************************)
\* hipGetDeviceCount fails (hipErrorNoDevice) when no device is visible.
hipGetDeviceCountOk == deviceCount >= 1
\* hipSetDevice fails (hipErrorInvalidDevice) on an id outside [0, count).
hipSetDeviceOk(id) == 0 <= id /\ id < deviceCount

WarnRank == "Could not guess local rank; setting device 0."
WarnSize == "Could not guess local size; setting device 0."
ErrOversubscribed == "More local ranks than (visible) GPUs."

\* The outcomes of get_reasonable_default_gpu_id(): the id it returns, or
\* the way it ends the process, and what it logged.
Returns(id, msgs) == [end |-> "return", id |-> id, msgs |-> msgs]
Terminates(msgs) == [end |-> "terminate", id |-> -1, msgs |-> msgs]
Trapped == [end |-> "trap", id |-> -1, msgs |-> {}]

get_reasonable_default_gpu_id ==
    IF force_device_zero THEN {Returns(0, {})}
    ELSE
      LET lrank == guess_local_rank
          ngpus == deviceCount
          After(ls) ==
            IF ls.trap THEN Trapped
            ELSE IF lrank < 0 THEN Returns(0, {WarnRank})
            ELSE IF ls.val < 0 THEN Returns(0, {WarnSize})
            ELSE IF ~hipGetDeviceCountOk THEN Terminates({})
            ELSE IF force_round_robin THEN Returns(CMod(lrank, ngpus), {})
            ELSE IF ls.val <= ngpus THEN Returns(lrank, {})
            ELSE Terminates({ErrOversubscribed})
      IN  {After(ls) : ls \in guess_local_size}

NoCall == [op |-> "none", bound |-> FALSE, set_gpu |-> <<>>, msgs |-> {}]
Call(op, bound, ids, msgs) ==
    [op |-> op, bound |-> bound, set_gpu |-> ids, msgs |-> msgs]

\* h2::gpu::set_gpu(id)
SetGpu(id) ==
    /\ status = "running"
    /\ lastCall' = Call("set_gpu", FALSE, <<id>>, {})
    /\ IF hipSetDeviceOk(id)
       THEN currentDevice' = id /\ status' = status
       ELSE status' = "terminated" /\ currentDevice' = currentDevice
    /\ UNCHANGED <<env, deviceCount, initialized_>>

\* init_runtime() on a runtime that is not initialized (runtime.cpp:212-216):
\* the devices are counted, set_reasonable_default_gpu() runs, the flag is set.
BindAndInitialize ==
    IF ~hipGetDeviceCountOk
    THEN /\ status' = "terminated"
         /\ lastCall' = Call("init_runtime", FALSE, <<>>, {})
         /\ UNCHANGED <<currentDevice, initialized_>>
    ELSE \E out \in get_reasonable_default_gpu_id :
         /\ lastCall' = Call("init_runtime", TRUE,
                             IF out.end = "return" THEN <<out.id>> ELSE <<>>,
                             out.msgs)
         /\ IF out.end = "return" /\ hipSetDeviceOk(out.id)
            THEN /\ currentDevice' = out.id
                 /\ initialized_' = TRUE
                 /\ status' = status
            ELSE /\ status' = IF out.end = "trap" THEN "trapped"
                              ELSE "terminated"
                 /\ UNCHANGED <<currentDevice, initialized_>>

\* init_runtime() on an initialized runtime (runtime.cpp:220): it only logs.
AlreadyInitialized ==
    /\ lastCall' = Call("init_runtime", FALSE, <<>>, {})
    /\ UNCHANGED <<currentDevice, initialized_, status>>

\* A slip the idempotence rests on not being made: the flag is not tested.
InitRuntimeUnguarded ==
    /\ status = "running"
    /\ BindAndInitialize
    /\ UNCHANGED <<env, deviceCount>>

\* h2::gpu::init_runtime()
InitRuntime ==
    /\ status = "running"
    /\ IF ~initialized_ THEN BindAndInitialize ELSE AlreadyInitialized
    /\ UNCHANGED <<env, deviceCount>>

\* h2::gpu::finalize_runtime()
FinalizeRuntime ==
    /\ status = "running"
    /\ IF ~initialized_
       THEN UNCHANGED <<initialized_, lastCall>>
       ELSE /\ initialized_' = FALSE
            /\ lastCall' = Call("finalize_runtime", FALSE, <<>>, {})
    /\ UNCHANGED <<env, deviceCount, currentDevice, status>>

NextGpu ==
    \/ InitRuntime
    \/ FinalizeRuntime
    \/ \E id \in 0..MaxGpus : SetGpu(id)

(***************************************************************************)
(* Tensors.  A tensor object is reached through a handle; a handle with no *)
(* object is free.  External buffers are the caller's; the others are      *)
(* allocated and freed by StridedMemory.                                   *)
(***************************************************************************)
TensorIds == {"a", "b"}
\* The handles the program constructs tensors into; the other handles take
\* the tensors that view, const_view, operator() and contiguous return.
Constructed == {"a"}
DimTypes == {"Any"}
Extents == {1, 2}

ShapeTuples == UNION {[1..n -> Extents] : n \in 0..MaxRank}
DimensionTypeTuples == UNION {[1..n -> DimTypes] : n \in 0..MaxRank}

RECURSIVE product(_)
product(tuple) == IF tuple = <<>> THEN 1 ELSE Head(tuple) * product(Tail(tuple))

\* Elements a buffer for shape holds; a tensor of rank 0 has no buffer.
NumElements(shape) == IF shape = <<>> THEN 0 ELSE product(shape)

\* Row major: the last stride is 1, each other the next extent times the
\* next stride.
DefaultStrides(shape) ==
    [i \in 1..Len(shape) |-> product(SubSeq(shape, i + 1, Len(shape)))]

are_strides_contiguous(shape, strides) == strides = DefaultStrides(shape)

\* FixedSizeTuple::set_size: truncates; entries that are added have no
\* defined value.
set_size(tuple, n) ==
    IF n <= Len(tuple) THEN {SubSeq(tuple, 1, n)}
    ELSE {tuple \o pad : pad \in [1..(n - Len(tuple)) -> DimTypes]}

\* Coordinates: ALL, or the range [lo, hi).
ALL == [all |-> TRUE, lo |-> 0, hi |-> 0]
DimensionRange(lo, hi) == [all |-> FALSE, lo |-> lo, hi |-> hi]
RangesIn(extent) ==
    {r \in {DimensionRange(lo, hi) : lo \in 0..(extent - 1), hi \in 1..extent} :
        r.lo < r.hi}
CoordTuples(shape) ==
    {c \in [1..Len(shape) -> {ALL} \cup UNION {RangesIn(e) : e \in Extents}] :
        \A i \in 1..Len(shape) : c[i] \in {ALL} \cup RangesIn(shape[i])}
TuplePad(n, value) == [i \in 1..n |-> value]

\* A range of a single index collapses its dimension.
is_coord_trivial(coord) == ~coord.all /\ coord.hi = coord.lo + 1

\* The entries of tuple whose dimension coords does not collapse.
RECURSIVE filter_from(_, _, _)
filter_from(coords, tuple, i) ==
    IF i > Len(tuple) THEN <<>>
    ELSE (IF i <= Len(coords) /\ is_coord_trivial(coords[i])
          THEN <<>> ELSE <<tuple[i]>>) \o filter_from(coords, tuple, i + 1)
filter_by_trivial(coords, tuple) == filter_from(coords, tuple, 1)

get_range_shape(coords, shape) ==
    filter_by_trivial(coords,
        [i \in 1..Len(shape) |->
            IF i > Len(coords) \/ coords[i].all THEN shape[i]
            ELSE coords[i].hi - coords[i].lo])

RECURSIVE range_offset(_, _, _)
range_offset(coords, strides, i) ==
    IF i > Len(coords) \/ i > Len(strides) THEN 0
    ELSE coords[i].lo * strides[i] + range_offset(coords, strides, i + 1)

\* Buffers.
NullBuffer == [kind |-> "nullptr", id |-> "none"]
ConstBuffer == [kind |-> "const T*", id |-> "caller"]
MutableBuffer == [kind |-> "T*", id |-> "caller"]
HeapBuffer(id) == [kind |-> "allocated", id |-> id]

\* An allocated buffer is named after the tensor that allocated it.
EmptyHeap == {}
Allocate(hp, h, shape) ==
    IF NumElements(shape) = 0 THEN hp
    ELSE hp \cup {[id |-> h, size |-> NumElements(shape)]}

\* StridedMemory(): no buffer.
StridedMemoryDefault ==
    [mem_buffer |-> NullBuffer, mem_offset |-> 0, mem_strides |-> <<>>,
     is_mem_owned |-> FALSE]
\* StridedMemory(shape): allocates, with the default strides.
StridedMemoryOfShape(h, shape) ==
    [mem_buffer |-> IF NumElements(shape) = 0 THEN NullBuffer
                    ELSE HeapBuffer(h),
     mem_offset |-> 0, mem_strides |-> DefaultStrides(shape),
     is_mem_owned |-> NumElements(shape) # 0]
\* StridedMemory(buffer, shape, strides): the caller's buffer, not owned.
StridedMemoryOfBuffer(buffer, strides) ==
    [mem_buffer |-> buffer, mem_offset |-> 0, mem_strides |-> strides,
     is_mem_owned |-> FALSE]
\* StridedMemory(mem, coords): an alias into the buffer of mem.
StridedMemoryView(mem, coords) ==
    [mem_buffer |-> mem.mem_buffer,
     mem_offset |-> mem.mem_offset + range_offset(coords, mem.mem_strides, 1),
     mem_strides |-> filter_by_trivial(coords, mem.mem_strides),
     is_mem_owned |-> FALSE]
\* ~StridedMemory(): an owned buffer is freed.
Release(hp, mem) ==
    IF mem.is_mem_owned THEN {b \in hp : b.id # mem.mem_buffer.id} ELSE hp

\* A tensor object.  is_const: the object is reached through a pointer to
\* const (what const_view returns).  read_only: its buffer was handed over
\* as const, by the caller or by a const view.
TensorObject(is_const, view_type, shape, dim_types, mem, read_only) ==
    [alive |-> TRUE, is_const |-> is_const, tensor_view_type |-> view_type,
     tensor_shape |-> shape, tensor_dim_types |-> dim_types,
     tensor_memory |-> mem, read_only |-> read_only]
NoTensor ==
    [alive |-> FALSE, is_const |-> FALSE, tensor_view_type |-> "None",
     tensor_shape |-> <<>>, tensor_dim_types |-> <<>>,
     tensor_memory |-> StridedMemoryDefault, read_only |-> FALSE]
NoTensors == [h \in TensorIds |-> NoTensor]

is_view(t) == t.tensor_view_type # "None"
strides(t) == t.tensor_memory.mem_strides
is_contiguous(t) == are_strides_contiguous(t.tensor_shape, strides(t))

\* The last call: its name, its tensor, the tensor it was made from, how it
\* ended, the rank of its shape argument, the shape argument when it
\* returned, and the pointer it returned.
Ret(op, h, src, st, rank, arg, ptr) ==
    [op |-> op, h |-> h, src |-> src, status |-> st, rank |-> rank,
     arg |-> arg, ptr |-> ptr]
NoResult == Ret("none", "a", "a", "ok", 0, <<>>, NullBuffer)
Ok(op, h) == Ret(op, h, h, "ok", 0, <<>>, NullBuffer)
Throws(op, h, arg) == Ret(op, h, h, "H2Exception", Len(arg), <<>>, NullBuffer)

Usable(h) == tensors[h].alive /\ ~tensors[h].is_const

\* A view does not outlive the buffer it aliases: the caller frees the
\* buffer a tensor owns only when no other tensor aliases it.
MayRelease(h) ==
    tensors[h].tensor_memory.is_mem_owned =>
        \A g \in TensorIds \ {h} :
            tensors[g].alive =>
                tensors[g].tensor_memory.mem_buffer
                    # tensors[h].tensor_memory.mem_buffer

\* Tensor(ShapeTuple, DimensionTypeTuple)
Construct(h, shape_, dim_types_, op) ==
    /\ ~tensors[h].alive
    /\ tensors' = [tensors EXCEPT ![h] =
          TensorObject(FALSE, "None", shape_, dim_types_,
                       StridedMemoryOfShape(h, shape_), FALSE)]
    /\ heap' = Allocate(heap, h, shape_)
    /\ result' = Ok(op, h)

\* Tensor()
ConstructDefault(h) == Construct(h, <<>>, <<>>, "Tensor()")

\* Tensor(T* buffer, shape, dim_types, strides)
ConstructMutable(h, shape_, dim_types_, strides_) ==
    /\ ~tensors[h].alive
    /\ tensors' = [tensors EXCEPT ![h] =
          TensorObject(FALSE, "Mutable", shape_, dim_types_,
                       StridedMemoryOfBuffer(MutableBuffer, strides_), FALSE)]
    /\ result' = Ok("Tensor(T*)", h)
    /\ UNCHANGED heap

\* Tensor(const T* buffer, shape, dim_types, strides)
ConstructConst(h, shape_, dim_types_, strides_) ==
    /\ ~tensors[h].alive
    /\ tensors' = [tensors EXCEPT ![h] =
          TensorObject(FALSE, "Const", shape_, dim_types_,
                       StridedMemoryOfBuffer(ConstBuffer, strides_), TRUE)]
    /\ result' = Ok("Tensor(const T*)", h)
    /\ UNCHANGED heap

\* ~Tensor()
Destroy(h) ==
    /\ tensors[h].alive
    /\ MayRelease(h)
    /\ tensors' = [tensors EXCEPT ![h] = NoTensor]
    /\ heap' = Release(heap, tensors[h].tensor_memory)
    /\ result' = Ok("~Tensor", h)

\* A slip: empty() leaves a view a view.
EmptiedStaysView(t) ==
    [t EXCEPT !.tensor_memory = StridedMemoryDefault,
              !.tensor_shape = <<>>,
              !.tensor_dim_types = <<>>,
              !.read_only = FALSE]

\* The tensor after empty().
Emptied(t) ==
    [t EXCEPT !.tensor_memory = StridedMemoryDefault,
              !.tensor_shape = <<>>,
              !.tensor_dim_types = <<>>,
              !.tensor_view_type = IF is_view(t) THEN "None" ELSE @,
              !.read_only = FALSE]

\* empty()
Empty(h) ==
    /\ Usable(h)
    /\ MayRelease(h)
    /\ tensors' = [tensors EXCEPT ![h] = Emptied(tensors[h])]
    /\ heap' = Release(heap, tensors[h].tensor_memory)
    /\ result' = Ok("empty", h)

\* A slip: resize() allocates for the new shape and keeps the old one.
ResizedKeepsShape(h, new_shape, new_dim_types) ==
    [tensors[h] EXCEPT
              !.tensor_memory = StridedMemoryOfShape(h, new_shape),
              !.tensor_dim_types = new_dim_types]

\* The tensor after a resize to new_shape and new_dim_types.
Resized(h, new_shape, new_dim_types) ==
    [tensors[h] EXCEPT
              !.tensor_memory = StridedMemoryOfShape(h, new_shape),
              !.tensor_shape = new_shape,
              !.tensor_dim_types = new_dim_types]

\* resize(ShapeTuple)
Resize(h, new_shape) ==
    /\ Usable(h)
    /\ IF is_view(tensors[h]) \/ Len(new_shape) > Len(tensors[h].tensor_shape)
       THEN /\ result' = Throws("resize(shape)", h, new_shape)
            /\ UNCHANGED <<tensors, heap>>
       ELSE /\ MayRelease(h)
            /\ \E dts \in set_size(tensors[h].tensor_dim_types, Len(new_shape)) :
                 tensors' = [tensors EXCEPT ![h] =
                                Resized(h, new_shape, dts)]
            /\ heap' = Allocate(Release(heap, tensors[h].tensor_memory),
                                h, new_shape)
            /\ result' = Ret("resize(shape)", h, h, "ok", Len(new_shape),
                             new_shape, NullBuffer)

\* resize(ShapeTuple, DimensionTypeTuple)
ResizeWithTypes(h, new_shape, new_dim_types) ==
    /\ Usable(h)
    /\ IF is_view(tensors[h])
       THEN /\ result' = Throws("resize(shape,dim_types)", h, new_shape)
            /\ UNCHANGED <<tensors, heap>>
       ELSE /\ MayRelease(h)
            /\ tensors' = [tensors EXCEPT ![h] =
                              Resized(h, new_shape, new_dim_types)]
            /\ heap' = Allocate(Release(heap, tensors[h].tensor_memory),
                                h, new_shape)
            /\ result' = Ret("resize(shape,dim_types)", h, h, "ok",
                             Len(new_shape), new_shape, NullBuffer)

\* T* data()
Data(h) ==
    /\ Usable(h)
    /\ result' = IF tensors[h].tensor_view_type = "Const"
                 THEN Throws("data", h, <<>>)
                 ELSE Ret("data", h, h, "ok", 0, <<>>,
                          tensors[h].tensor_memory.mem_buffer)
    /\ UNCHANGED <<tensors, heap>>

\* The private constructor for views.
ViewObject(is_const, view_type_, t, coords) ==
    TensorObject(is_const, view_type_,
                 get_range_shape(coords, t.tensor_shape),
                 filter_by_trivial(coords, t.tensor_dim_types),
                 StridedMemoryView(t.tensor_memory, coords),
                 t.read_only \/ view_type_ = "Const")

MakeView(op, src, dst, is_const, view_type_, coords) ==
    /\ dst # src
    /\ ~tensors[dst].alive
    /\ tensors' = [tensors EXCEPT ![dst] =
                      ViewObject(is_const, view_type_, tensors[src], coords)]
    /\ result' = Ret(op, dst, src, "ok", 0, <<>>, NullBuffer)
    /\ UNCHANGED heap

\* view(CoordTuple)
View(src, dst, coords) ==
    /\ Usable(src)
    /\ MakeView("view(coords)", src, dst, FALSE, "Mutable", coords)

\* view()
ViewAll(src, dst) ==
    /\ Usable(src)
    /\ MakeView("view()", src, dst, FALSE, "Mutable",
                TuplePad(Len(tensors[src].tensor_shape), ALL))

\* const_view(CoordTuple)
ConstView(src, dst, coords) ==
    /\ tensors[src].alive
    /\ MakeView("const_view(coords)", src, dst, TRUE, "Const", coords)

\* const_view()
ConstViewAll(src, dst) ==
    /\ tensors[src].alive
    /\ MakeView("const_view()", src, dst, TRUE, "Const",
                TuplePad(Len(tensors[src].tensor_shape), ALL))

\* operator()(CoordTuple), the overload the object's constness selects
Call_(src, dst, coords) ==
    /\ tensors[src].alive
    /\ IF tensors[src].is_const
       THEN MakeView("const_view(coords)", src, dst, TRUE, "Const", coords)
       ELSE MakeView("view(coords)", src, dst, FALSE, "Mutable", coords)

\* contiguous()
Contiguous(src, dst) ==
    /\ Usable(src)
    /\ IF is_contiguous(tensors[src])
       THEN MakeView("view()", src, dst, FALSE, "Mutable",
                     TuplePad(Len(tensors[src].tensor_shape), ALL))
       ELSE /\ result' = Throws("contiguous", src, <<>>)
            /\ UNCHANGED <<tensors, heap>>

\* unview(): H2_ASSERT_DEBUG checks in a debug build only.
Unview(h) ==
    /\ Usable(h)
    /\ \/ /\ ~is_view(tensors[h])
          /\ result' = Ret("unview", h, h, "H2_ASSERT_DEBUG", 0, <<>>,
                           NullBuffer)
          /\ UNCHANGED <<tensors, heap>>
       \/ /\ MayRelease(h)
          /\ tensors' = [tensors EXCEPT ![h] = Emptied(tensors[h])]
          /\ heap' = Release(heap, tensors[h].tensor_memory)
          /\ result' = Ok("unview", h)

StrideTuples(shape) ==
    {DefaultStrides(shape),
     [i \in 1..Len(shape) |-> 2 * DefaultStrides(shape)[i]]}

NextTensor ==
    \E h \in TensorIds :
       \/ h \in Constructed /\ ConstructDefault(h)
       \/ \E s \in ShapeTuples, d \in DimensionTypeTuples :
             /\ h \in Constructed
             /\ Len(s) = Len(d)
             /\ \/ Construct(h, s, d, "Tensor(shape,dim_types)")
                \/ \E st \in StrideTuples(s) : ConstructMutable(h, s, d, st)
                \/ \E st \in StrideTuples(s) : ConstructConst(h, s, d, st)
       \/ Destroy(h)
       \/ Empty(h)
       \/ \E s \in ShapeTuples : Resize(h, s)
       \/ \E s \in ShapeTuples, d \in DimensionTypeTuples :
             ResizeWithTypes(h, s, d)
       \/ Data(h)
       \/ Unview(h)
       \/ \E dst \in TensorIds :
             \/ ViewAll(h, dst)
             \/ ConstViewAll(h, dst)
             \/ Contiguous(h, dst)
             \/ \E c \in CoordTuples(tensors[h].tensor_shape) :
                   \/ View(h, dst, c)
                   \/ ConstView(h, dst, c)
                   \/ Call_(h, dst, c)

InitTensor ==
    /\ tensors = NoTensors
    /\ heap = EmptyHeap
    /\ result = NoResult
    /\ env = [n \in {} |-> NULL]
    /\ deviceCount = 0
    /\ currentDevice = 0
    /\ initialized_ = FALSE
    /\ status = "running"
    /\ lastCall = NoCall

SpecTensor == InitTensor /\ [][NextTensor /\ UNCHANGED gpuVars]_vars

InitGpu ==
    /\ env \in Environments
    /\ deviceCount \in 0..MaxGpus
    /\ currentDevice = 0
    /\ initialized_ = FALSE
    /\ status = "running"
    /\ lastCall = NoCall
    /\ tensors = NoTensors
    /\ heap = EmptyHeap
    /\ result = NoResult

SpecGpu == InitGpu /\ [][NextGpu /\ UNCHANGED tensorVars]_vars

(***************************************************************************)
(* The claims about the GPU runtime, checked under SpecGpu.                *)
(***************************************************************************)
\* The last call was an init_runtime() that ran the device binding.
BindingRan == lastCall.op = "init_runtime" /\ lastCall.bound
\* The binding called set_gpu(d), the call returned and the runtime is
\* initialized on device d.
BoundTo(d) ==
    /\ status = "running"
    /\ initialized_
    /\ currentDevice = d
    /\ lastCall.set_gpu = <<d>>
\* The binding ended the process before any set_gpu.
FatalBeforeBinding ==
    status = "terminated" /\ ~initialized_ /\ lastCall.set_gpu = <<>>
Warned == lastCall.msgs \cap {WarnRank, WarnSize} # {}

\* The two readings of "truthy".
NonEmptyNotLiteralZero(str) ==
    str # NULL /\ str # CStr(<<>>) /\ str # CStr(<<"0">>)
FirstCharNotZero(str) == str # NULL /\ Len(str) > 1 /\ Head(str) # "0"

RankKnown == \E i \in DOMAIN RankNames : RankNames[i] \in DOMAIN env
SizeKnown ==
    \/ FluxNames \subseteq DOMAIN env
    \/ \E i \in DOMAIN SizeNames : SizeNames[i] \in DOMAIN env

\* C1: init_runtime() is idempotent.  A call on an initialized runtime runs
\* no device binding, calls no set_gpu, and leaves the flag true and the
\* active device as it was; a call on a runtime that is not initialized and
\* that returns has run the binding and set the flag.
C1_InitRuntimeIdempotent ==
    [][lastCall'.op = "init_runtime" =>
         IF initialized_
         THEN /\ ~lastCall'.bound
              /\ lastCall'.set_gpu = <<>>
              /\ initialized_'
              /\ currentDevice' = currentDevice
              /\ status' = "running"
         ELSE status' = "running" =>
                 lastCall'.bound /\ initialized_' /\ Len(lastCall'.set_gpu) = 1
      ]_vars

\* C1, its case: a second init_runtime() has returned on a runtime that the
\* first one bound to a device other than 0.
C1_SecondCallReturned ==
    /\ lastCall.op = "init_runtime"
    /\ ~lastCall.bound
    /\ initialized_
    /\ status = "running"
    /\ currentDevice # 0

\* C2 as stated: with H2_SELECT_DEVICE_0 any non-empty string other than
\* "0", the binding binds device 0 and takes no warning or error path.
C2_AnyStringButZeroForcesDevice0 ==
    (BindingRan /\ NonEmptyNotLiteralZero(getenv("H2_SELECT_DEVICE_0")))
        => (BoundTo(0) /\ lastCall.msgs = {})

\* C2 as amended: with H2_SELECT_DEVICE_0 a non-empty string whose first
\* character is not '0', the binding binds device 0 and takes no warning or
\* error path, whatever the other variables and the device count are.
C2_FirstCharNotZeroForcesDevice0 ==
    (BindingRan /\ FirstCharNotZero(getenv("H2_SELECT_DEVICE_0")))
        => (BoundTo(0) /\ lastCall.msgs = {})

\* C2, its case: device 0 was forced although the local rank is 1 or more,
\* a local size is set and more than one device is visible.
C2_ForcedOverRank ==
    /\ BindingRan
    /\ FirstCharNotZero(getenv("H2_SELECT_DEVICE_0"))
    /\ RankKnown /\ guess_local_rank > 0
    /\ SizeKnown
    /\ deviceCount > 1
    /\ BoundTo(0)

\* C3: with H2_SELECT_DEVICE_0 not truthy, H2_SELECT_DEVICE_RR truthy and a
\* local rank r >= 0, the binding binds device r mod ngpus, whether or not
\* a local size is set.
C3_RoundRobinBindsRankModGpus ==
    ( /\ BindingRan
      /\ ~FirstCharNotZero(getenv("H2_SELECT_DEVICE_0"))
      /\ FirstCharNotZero(getenv("H2_SELECT_DEVICE_RR"))
      /\ RankKnown /\ guess_local_rank >= 0 )
        => BoundTo(guess_local_rank % deviceCount)

\* C4: with neither flag truthy and the local rank and size known, the
\* binding binds device local_rank if local_size <= ngpus, and otherwise
\* ends the process with no device bound and the runtime not initialized.
C4_DirectMappingOrFatal ==
    ( /\ BindingRan
      /\ ~FirstCharNotZero(getenv("H2_SELECT_DEVICE_0"))
      /\ ~FirstCharNotZero(getenv("H2_SELECT_DEVICE_RR"))
      /\ RankKnown /\ SizeKnown )
        => \A lsize \in guess_local_size :
              /\ ~lsize.trap
              /\ IF lsize.val <= deviceCount
                 THEN BoundTo(guess_local_rank)
                 ELSE FatalBeforeBinding

\* C5: with H2_SELECT_DEVICE_0 not truthy and the local rank or the local
\* size unknown, the binding warns and binds device 0 instead of failing.
C5_UnknownRankOrSizeFallsBack ==
    ( /\ BindingRan
      /\ ~FirstCharNotZero(getenv("H2_SELECT_DEVICE_0"))
      /\ (~RankKnown \/ ~SizeKnown) )
        => (BoundTo(0) /\ Warned)

\* C10: an id the binding passes to set_gpu lies in [0, ngpus), and the
\* binding divides by no zero.
C10_BoundIdInRange ==
    BindingRan =>
        /\ status # "trapped"
        /\ \A i \in DOMAIN lastCall.set_gpu :
              0 <= lastCall.set_gpu[i] /\ lastCall.set_gpu[i] < deviceCount

(***************************************************************************)
(* The claims about the tensor, checked under SpecTensor.                  *)
(***************************************************************************)
IsResize(r) == r.op \in {"resize(shape)", "resize(shape,dim_types)"}
IsEmptyOwner(t) ==
    /\ t.tensor_shape = <<>>
    /\ t.tensor_dim_types = <<>>
    /\ t.tensor_view_type = "None"

\* C6 as stated: resize fails on every view, and on an owning tensor it
\* succeeds with any shape and leaves the tensor with the new shape and
\* contiguous.
C6_ResizeOfOwnerAlwaysSucceeds ==
    IsResize(result) =>
        IF is_view(tensors[result.h])
        THEN result.status = "H2Exception"
        ELSE /\ result.status = "ok"
             /\ tensors[result.h].tensor_shape = result.arg
             /\ is_contiguous(tensors[result.h])

\* C6 as amended: either resize fails on a view, and resize(shape) fails on
\* an owning tensor when the new rank exceeds the current rank; a failed
\* resize changes nothing.  Every other resize of an owning tensor succeeds
\* and leaves it owning, with the new shape, and contiguous.
C6_ResizeFailsOnViewOrGrowth ==
    [][IsResize(result') =>
         LET before == tensors[result'.h]
             after == tensors'[result'.h]
             grows == /\ result'.op = "resize(shape)"
                      /\ result'.rank > Len(before.tensor_shape)
         IN  IF is_view(before) \/ grows
             THEN /\ result'.status = "H2Exception"
                  /\ tensors' = tensors
                  /\ heap' = heap
             ELSE /\ result'.status = "ok"
                  /\ after.tensor_shape = result'.arg
                  /\ Len(result'.arg) = result'.rank
                  /\ after.tensor_view_type = "None"
                  /\ is_contiguous(after)
      ]_vars

\* C6, its case: resize(shape) has failed on an owning tensor.
C6_GrowthRefused ==
    /\ result.op = "resize(shape)"
    /\ result.status = "H2Exception"
    /\ tensors[result.h].alive
    /\ ~is_view(tensors[result.h])
    /\ result.rank > Len(tensors[result.h].tensor_shape)

\* C7: data() returns a mutable pointer on no tensor whose buffer was handed
\* over as const: such a tensor is a const view, whatever calls made it.
C7_NoMutablePointerToConstBuffer ==
    (result.op = "data" /\ result.status = "ok") =>
        /\ tensors[result.h].tensor_view_type # "Const"
        /\ ~tensors[result.h].read_only

\* C8: V = T.view() leaves T as it was, and a V.unview() that follows leaves
\* V empty (rank 0) and owning, and T (shape, dimension types, strides,
\* view type, buffer) and the allocated buffers as they were.
C8_ViewUnviewRoundTrip ==
    [][ /\ result'.op = "view()" =>
              /\ tensors'[result'.src] = tensors[result'.src]
              /\ heap' = heap
        /\ (result.op = "view()" /\ result'.op = "unview"
                                 /\ result'.h = result.h) =>
              /\ result'.status = "ok"
              /\ IsEmptyOwner(tensors'[result.h])
              /\ strides(tensors'[result.h]) = <<>>
              /\ tensors'[result.src] = tensors[result.src]
              /\ heap' = heap
      ]_vars

\* C8, its case: unview() has returned on the view "b", which is now empty,
\* and the tensor "a" still owns a buffer that is allocated.
C8_UnviewedBesideOwner ==
    /\ result.op = "unview" /\ result.status = "ok" /\ result.h = "b"
    /\ IsEmptyOwner(tensors["b"])
    /\ tensors["a"].alive
    /\ tensors["a"].tensor_memory.is_mem_owned
    /\ \E b \in heap : HeapBuffer(b.id) = tensors["a"].tensor_memory.mem_buffer

\* C9: every tensor has as many dimension types and as many strides as it
\* has dimensions.
C9_RankConsistent ==
    \A h \in TensorIds :
        tensors[h].alive =>
            /\ Len(tensors[h].tensor_shape) = Len(tensors[h].tensor_dim_types)
            /\ Len(tensors[h].tensor_shape) = Len(strides(tensors[h]))

====
